---- MODULE Spec2Model ----
(***************************************************************************)
(* English -> Bengali dictionary: the App component (src/unnamed/part_000). *)
(* The React state of the component, the browser's localStorage entry that  *)
(* keeps the search history, and the translation requests in flight.        *)
(*                                                                         *)
(* Strings are sequences of one-character strings, so that trim,            *)
(* toLowerCase, JSON.stringify and JSON.parse are computed character by     *)
(* character.  The fixed texts of the user interface are kept as one symbol *)
(* each.  A nullable value is a sequence of length 0 (null) or 1.           *)
(***************************************************************************)
EXTENDS Integers, Sequences, FiniteSets, TLC

VARIABLES
    searchTerm,       \* useState<string>('')                       line 12
    translations,     \* useState<TranslationEntry[] | null>(null)  line 13
    isLoading,        \* useState<boolean>(false)                   line 14
    error,            \* useState<string | null>(null)              line 15
    searchHistory,    \* useState<string[]>([])                     line 16
    localStorage,     \* the entry under LOCAL_STORAGE_HISTORY_KEY: null or a text
    effectDone,       \* whether the mount effect of lines 19-29 has run
    inFlight,         \* the fetchTranslations calls not yet settled, oldest first
    latest,           \* the latest handleSearch call of this page load
    calls,            \* number of handleSearch and record calls made so far
    restarts,         \* number of page reloads made
    lastHistoryOp     \* the last mutation of the history: its kind, whether
                      \* its storage call threw, and the page load it was made in

vars == <<searchTerm, translations, isLoading, error, searchHistory,
          localStorage, effectDone, inFlight, latest, calls, restarts,
          lastHistoryOp>>

-----------------------------------------------------------------------------
(* Bounds of the model *)

MaxCalls == 2
MaxRestarts == 1

(* Program constants *)

MAX_HISTORY_ITEMS == 10

-----------------------------------------------------------------------------
(* Nullable values *)

Null == <<>>
Some(v) == <<v>>
IsNull(x) == x = Null
ValueOf(x) == x[1]

(* A JavaScript string is falsy exactly when it is empty; null is falsy. *)
Truthy(x) == ~IsNull(x) /\ ValueOf(x) # <<>>

-----------------------------------------------------------------------------
(* String.prototype.trim and String.prototype.toLowerCase, on ASCII *)

WhiteSpace == {" ", "\t", "\n"}

UpperCase == <<"A","B","C","D","E","F","G","H","I","J","K","L","M",
               "N","O","P","Q","R","S","T","U","V","W","X","Y","Z">>
LowerCase == <<"a","b","c","d","e","f","g","h","i","j","k","l","m",
               "n","o","p","q","r","s","t","u","v","w","x","y","z">>

LowerOf ==
    [c \in {UpperCase[i] : i \in 1..Len(UpperCase)} |->
        LowerCase[CHOOSE i \in 1..Len(UpperCase) : UpperCase[i] = c]]

toLowerCaseChar(c) == IF c \in DOMAIN LowerOf THEN LowerOf[c] ELSE c

toLowerCase(s) == [i \in 1..Len(s) |-> toLowerCaseChar(s[i])]

(* trim left out: the term is used as typed. *)
trimNothing(s) == s

RECURSIVE trimStart(_)
trimStart(s) ==
    IF s # <<>> /\ Head(s) \in WhiteSpace THEN trimStart(Tail(s)) ELSE s

RECURSIVE trimEnd(_)
trimEnd(s) ==
    IF s # <<>> /\ s[Len(s)] \in WhiteSpace
    THEN trimEnd(SubSeq(s, 1, Len(s) - 1))
    ELSE s

trim(s) == trimEnd(trimStart(s))

-----------------------------------------------------------------------------
(* JSON.stringify and JSON.parse for arrays of strings, the only values the *)
(* component writes and reads; a text that is no array of strings is not    *)
(* among the stored values and is answered like a text that is not JSON.    *)

Quote == "\""
BackSlash == "\\"

EscapeChar(c) ==
    IF c = Quote THEN <<BackSlash, Quote>>
    ELSE IF c = BackSlash THEN <<BackSlash, BackSlash>>
    ELSE IF c = "\t" THEN <<BackSlash, "t">>
    ELSE IF c = "\n" THEN <<BackSlash, "n">>
    ELSE <<c>>

RECURSIVE EscapeString(_)
EscapeString(s) ==
    IF s = <<>> THEN <<>> ELSE EscapeChar(Head(s)) \o EscapeString(Tail(s))

RECURSIVE StringifyElements(_)
StringifyElements(a) ==
    IF a = <<>> THEN <<>>
    ELSE <<Quote>> \o EscapeString(Head(a)) \o <<Quote>>
         \o (IF Len(a) > 1 THEN <<",">> \o StringifyElements(Tail(a)) ELSE <<>>)

JSONstringify(a) == <<"[">> \o StringifyElements(a) \o <<"]">>

SyntaxError == [ok |-> FALSE, value |-> <<>>, next |-> 0]

UnescapeChar(c) ==
    IF c = "t" THEN "\t" ELSE IF c = "n" THEN "\n" ELSE c

(* The string literal whose opening quote is just before position i. *)
RECURSIVE ParseString(_, _, _)
ParseString(t, i, acc) ==
    IF i > Len(t) THEN SyntaxError
    ELSE IF t[i] = Quote THEN [ok |-> TRUE, value |-> acc, next |-> i + 1]
    ELSE IF t[i] = BackSlash
         THEN IF i + 1 > Len(t) \/ t[i + 1] \notin {Quote, BackSlash, "t", "n"}
              THEN SyntaxError
              ELSE ParseString(t, i + 2, Append(acc, UnescapeChar(t[i + 1])))
    ELSE IF t[i] \in {"\t", "\n"} THEN SyntaxError
    ELSE ParseString(t, i + 1, Append(acc, t[i]))

(* The elements of an array from position i on, up to the closing bracket. *)
RECURSIVE ParseElements(_, _, _)
ParseElements(t, i, acc) ==
    IF i > Len(t) \/ t[i] # Quote THEN SyntaxError
    ELSE LET s == ParseString(t, i + 1, <<>>)
         IN  IF ~s.ok \/ s.next > Len(t) THEN SyntaxError
             ELSE IF t[s.next] = "]"
                  THEN IF s.next = Len(t)
                       THEN [ok |-> TRUE, value |-> Append(acc, s.value), next |-> s.next + 1]
                       ELSE SyntaxError
             ELSE IF t[s.next] = ","
                  THEN ParseElements(t, s.next + 1, Append(acc, s.value))
             ELSE SyntaxError

JSONparse(t) ==
    IF Len(t) < 2 \/ t[1] # "[" THEN SyntaxError
    ELSE IF t[2] = "]"
         THEN IF Len(t) = 2 THEN [ok |-> TRUE, value |-> <<>>, next |-> 3]
              ELSE SyntaxError
    ELSE ParseElements(t, 2, <<>>)

-----------------------------------------------------------------------------
(* The texts shown to the user *)

PleaseEnterMessage == <<"Please enter a word to search.">>

UnknownErrorMessage ==
    <<"An unknown error occurred. Please ensure your API key is set up correctly.">>

(* The not-found text without the term. *)
notFoundMessageWithoutTerm(trimmedTerm) ==
    <<"No translation found. Try another word.">>

(* `No translation found for "${trimmedTerm}". Try another word.` *)
notFoundMessage(trimmedTerm) ==
    <<"No translation found for ", Quote>> \o trimmedTerm
        \o <<Quote, ". Try another word.">>

(* err instanceof Error ? err.message : "An unknown error occurred. ..." *)
catchMessage(err) ==
    IF err.isError THEN err.message ELSE UnknownErrorMessage

-----------------------------------------------------------------------------
(* The history list *)

(* The filter comparing the entries as written, without lower-casing. *)
filteredHistoryCaseSensitive(prevHistory, termToAdd) ==
    SelectSeq(prevHistory, LAMBDA item : item # termToAdd)

(* prevHistory.filter(item => item.toLowerCase() !== lowercasedTermToAdd) *)
filteredHistory(prevHistory, termToAdd) ==
    LET lowercasedTermToAdd == toLowerCase(termToAdd)
    IN  SelectSeq(prevHistory, LAMBDA item : toLowerCase(item) # lowercasedTermToAdd)

(* slice(-n): the last n elements instead of the first n. *)
sliceLast(a, n) == SubSeq(a, IF Len(a) < n THEN 1 ELSE Len(a) - n + 1, Len(a))

(* Array.prototype.slice(0, n) *)
slice0(a, n) == SubSeq(a, 1, IF Len(a) < n THEN Len(a) ELSE n)

(* The list without the slice. *)
updatedHistoryUnbounded(prevHistory, termToAdd) ==
    <<termToAdd>> \o filteredHistory(prevHistory, termToAdd)

(* [termToAdd, ...filteredHistory].slice(0, MAX_HISTORY_ITEMS) *)
updatedHistory(prevHistory, termToAdd) ==
    slice0(<<termToAdd>> \o filteredHistory(prevHistory, termToAdd), MAX_HISTORY_ITEMS)

(* The filtered list saved instead of the updated one. *)
savedTextOfFiltered(prevHistory, termToAdd) ==
    JSONstringify(filteredHistory(prevHistory, termToAdd))

(* JSON.stringify(updatedHistory), the text handed to localStorage.setItem *)
savedText(prevHistory, termToAdd) ==
    JSONstringify(updatedHistory(prevHistory, termToAdd))

-----------------------------------------------------------------------------
(* localStorage: each call either throws (throws = TRUE) or takes effect *)

(* removeItem that leaves the entry in place. *)
removeItemKeeps(store, throws) == store

setItem(store, value, throws) == IF throws THEN store ELSE Some(value)

removeItem(store, throws) == IF throws THEN store ELSE Null

-----------------------------------------------------------------------------
(* The translation provider, fetchTranslations (services/geminiService):    *)
(* it resolves to a sequence of entries, possibly empty, or it rejects with *)
(* a thrown value, which is an Error with a message, an Error without one,  *)
(* or no Error at all.                                                      *)

EntriesFor(word) ==
    <<[englishWord |-> word, bengaliWord |-> <<"bengali">>, partOfSpeech |-> <<"noun">>]>>

NoError == [isError |-> FALSE, message |-> <<>>]

Fulfilled(entries) == [kind |-> "fulfilled", entries |-> entries, thrown |-> NoError]
Rejected(err) == [kind |-> "rejected", entries |-> <<>>, thrown |-> err]
NotSettled == [kind |-> "none", entries |-> <<>>, thrown |-> NoError]

(* No handleSearch call made yet. *)
NoCall == [status |-> "none", term |-> <<>>, overlapped |-> FALSE, outcome |-> NotSettled]

ProviderOutcomes(word) ==
    { Fulfilled(EntriesFor(word)),
      Fulfilled(<<>>),
      Rejected([isError |-> TRUE, message |-> <<"API key not valid.">>]),
      Rejected([isError |-> TRUE, message |-> <<>>]),
      Rejected([isError |-> FALSE, message |-> <<>>]) }

-----------------------------------------------------------------------------
(* What the component is started with and fed *)

hello == <<"h","e","l","l","o">>
HELLO == <<"H","E","L","L","O">>
World == <<"W","o","r","l","d">>

(* What the user may type into the search bar. *)
TypedTerms ==
    { hello, HELLO,
      <<>>, <<" ", "\t">>,
      <<" ">> \o World \o <<"\n">> }

(* A history of MAX_HISTORY_ITEMS one-letter words, left by earlier sessions. *)
FullHistory == [i \in 1..MAX_HISTORY_ITEMS |-> <<LowerCase[i]>>]

(* What localStorage holds when the page is first opened: nothing, or a     *)
(* history an earlier session of the component wrote.                       *)
InitialStorage ==
    { Null,
      Some(JSONstringify(<<World, hello>>)),
      Some(JSONstringify(FullHistory)) }

NoHistoryOp == [op |-> "none", threw |-> FALSE, session |-> 0]

Init ==
    /\ searchTerm = <<>>
    /\ translations = Null
    /\ isLoading = FALSE
    /\ error = Null
    /\ searchHistory = <<>>
    /\ localStorage \in InitialStorage
    /\ effectDone = FALSE
    /\ inFlight = <<>>
    /\ latest = NoCall
    /\ calls = 0
    /\ restarts = 0
    /\ lastHistoryOp = NoHistoryOp

-----------------------------------------------------------------------------
(* useEffect(() => { ... }, []): load the history once after mounting.      *)
(* throws: localStorage.getItem throws.                                     *)

loadedHistory(store, current, throws) ==
    IF throws THEN <<>>
    ELSE IF Truthy(store)
         THEN LET parsed == JSONparse(ValueOf(store))
              IN  IF parsed.ok THEN parsed.value ELSE <<>>
         ELSE current

LoadHistory(throws) ==
    /\ ~effectDone
    /\ effectDone' = TRUE
    /\ searchHistory' = loadedHistory(localStorage, searchHistory, throws)
    /\ UNCHANGED <<searchTerm, translations, isLoading, error, localStorage,
                   inFlight, latest, calls, restarts, lastHistoryOp>>

-----------------------------------------------------------------------------
(* updateSearchHistory(newTerm); throws: localStorage.setItem throws.       *)

updateSearchHistory(newTerm, throws) ==
    LET termToAdd == trim(newTerm)
    IN  IF termToAdd = <<>>
        THEN UNCHANGED <<searchHistory, localStorage, lastHistoryOp>>
        ELSE /\ searchHistory' = updatedHistory(searchHistory, termToAdd)
             /\ localStorage' =
                    setItem(localStorage, savedText(searchHistory, termToAdd), throws)
             /\ lastHistoryOp' = [op |-> "record", threw |-> throws, session |-> restarts]

(* The history manager's record operation, called on its own. *)
Record(newTerm, throws) ==
    /\ effectDone
    /\ calls < MaxCalls
    /\ calls' = calls + 1
    /\ UNCHANGED <<searchTerm, translations, isLoading, error, effectDone,
                   inFlight, latest, restarts>>
    /\ updateSearchHistory(newTerm, throws)

-----------------------------------------------------------------------------------------------------------------------------------------------------
(* handleSearch(term), up to the await of fetchTranslations.  The updater   *)
(* that updateSearchHistory hands to setSearchHistory runs when React       *)
(* applies the state updates of the handler, before any other handler.      *)

handleSearch(term, throws) ==
    LET trimmedTerm == trim(term)
    IN  /\ effectDone
        /\ calls < MaxCalls
        /\ calls' = calls + 1
        /\ IF trimmedTerm = <<>>
           THEN /\ error' = Some(PleaseEnterMessage)
                /\ translations' = Null
                /\ latest' = [status |-> "invalid", term |-> trimmedTerm,
                              overlapped |-> inFlight # <<>>, outcome |-> NotSettled]
                /\ UNCHANGED <<searchTerm, isLoading, searchHistory, localStorage,
                               inFlight, lastHistoryOp>>
           ELSE /\ searchTerm' = trimmedTerm
                /\ isLoading' = TRUE
                /\ error' = Null
                /\ translations' = Null
                /\ inFlight' = Append(inFlight, trimmedTerm)
                /\ latest' = [status |-> "pending", term |-> trimmedTerm,
                              overlapped |-> inFlight # <<>>, outcome |-> NotSettled]
                /\ updateSearchHistory(trimmedTerm, throws)
        /\ UNCHANGED <<effectDone, restarts>>

(* <SearchBar onSearch={handleSearch} isLoading={isLoading} />: the search  *)
(* bar is given isLoading; it is let to submit only while isLoading is not  *)
(* set, so that two calls overlap only through a click in the history.      *)
SearchBarEnabled == ~isLoading

SubmitSearch(term, throws) ==
    /\ SearchBarEnabled
    /\ handleSearch(term, throws)

(* handleHistoryItemClick(term): the history panel is shown while the       *)
(* history is not empty, whatever isLoading is.                             *)
handleHistoryItemClick(i, throws) ==
    /\ i \in 1..Len(searchHistory)
    /\ handleSearch(searchHistory[i], throws)

-----------------------------------------------------------------------------
(* handleSearch after the await: request i in flight settles with the given *)
(* outcome.  The latest call's request is the last one in flight.           *)

settledError(trimmedTerm, outcome, prevError) ==
    IF outcome.kind = "rejected" THEN Some(catchMessage(outcome.thrown))
    ELSE IF Len(outcome.entries) = 0 THEN Some(notFoundMessage(trimmedTerm))
    ELSE prevError

settledTranslations(outcome) ==
    IF outcome.kind = "fulfilled" /\ Len(outcome.entries) # 0
    THEN Some(outcome.entries)
    ELSE Null

RemoveAt(a, i) == SubSeq(a, 1, i - 1) \o SubSeq(a, i + 1, Len(a))

Settle(i, outcome) ==
    /\ i \in 1..Len(inFlight)
    /\ outcome \in ProviderOutcomes(inFlight[i])
    /\ error' = settledError(inFlight[i], outcome, error)
    /\ translations' = settledTranslations(outcome)
    /\ isLoading' = FALSE
    /\ inFlight' = RemoveAt(inFlight, i)
    /\ latest' = IF i = Len(inFlight) /\ latest.status = "pending"
                 THEN [latest EXCEPT !.status = "settled", !.outcome = outcome]
                 ELSE latest
    /\ UNCHANGED <<searchTerm, searchHistory, localStorage, effectDone,
                   calls, restarts, lastHistoryOp>>

-----------------------------------------------------------------------------
(* handleClearHistory(); throws: localStorage.removeItem throws.            *)

handleClearHistory(throws) ==
    /\ effectDone
    /\ Len(searchHistory) > 0
    /\ searchHistory' = <<>>
    /\ localStorage' = removeItem(localStorage, throws)
    /\ lastHistoryOp' = [op |-> "clear", threw |-> throws, session |-> restarts]
    /\ UNCHANGED <<searchTerm, translations, isLoading, error, effectDone,
                   inFlight, latest, calls, restarts>>

-----------------------------------------------------------------------------
(* The page is reloaded: the component is constructed anew, the requests in *)
(* flight are dropped, localStorage stays.                                  *)

Restart ==
    /\ restarts < MaxRestarts
    /\ restarts' = restarts + 1
    /\ searchTerm' = <<>>
    /\ translations' = Null
    /\ isLoading' = FALSE
    /\ error' = Null
    /\ searchHistory' = <<>>
    /\ effectDone' = FALSE
    /\ inFlight' = <<>>
    /\ latest' = NoCall
    /\ UNCHANGED <<localStorage, calls, lastHistoryOp>>

-----------------------------------------------------------------------------

(* The history entries the user clicks: the first, the second, the last. *)
ClickedPositions == {1, 2, Len(searchHistory)}

(* Every word a request can be made for. *)
Words ==
    {trim(t) : t \in TypedTerms} \cup {World, hello}
        \cup {FullHistory[k] : k \in 1..MAX_HISTORY_ITEMS}

Load == \E throws \in BOOLEAN : LoadHistory(throws)

Submit == \E term \in TypedTerms, throws \in BOOLEAN : SubmitSearch(term, throws)

HistoryItemClick ==
    \E i \in ClickedPositions, throws \in BOOLEAN : handleHistoryItemClick(i, throws)

ProviderSettles ==
    \E i \in 1..MaxCalls :
        \E outcome \in UNION {ProviderOutcomes(w) : w \in Words} : Settle(i, outcome)

ClearHistory == \E throws \in BOOLEAN : handleClearHistory(throws)

RecordDirect == \E term \in TypedTerms, throws \in BOOLEAN : Record(term, throws)

Next ==
    \/ Load
    \/ Submit
    \/ HistoryItemClick
    \/ ProviderSettles
    \/ ClearHistory
    \/ Restart

Spec == Init /\ [][Next]_vars

(* The same, with the history manager's record operation also called on its *)
(* own, with any typed term.                                                *)
NextWithRecord == Next \/ RecordDirect

HistorySpec == Init /\ [][NextWithRecord]_vars

-----------------------------------------------------------------------------
(* What the component renders (lines 109-128): the spinner, the error       *)
(* message, and the results under the heading "Results for: searchTerm".    *)

Rendered ==
    [spinner |-> isLoading,
     errorMessage |-> IF Truthy(error) THEN error ELSE Null,
     results |-> IF ~isLoading /\ ~Truthy(error) /\ ~IsNull(translations)
                 THEN Some([heading |-> searchTerm, entries |-> ValueOf(translations)])
                 ELSE Null]

-----------------------------------------------------------------------------
(* Vocabulary of the properties *)

EqualIgnoringCase(a, b) == toLowerCase(a) = toLowerCase(b)

IsBlank(t) == \A i \in 1..Len(t) : t[i] \in WhiteSpace

NoCaseDuplicates(h) ==
    LET lowered == [i \in 1..Len(h) |-> toLowerCase(h[i])]
    IN  \A i, j \in 1..Len(h) : lowered[i] = lowered[j] => i = j

Positions(h, t) == {k \in 1..Len(h) : EqualIgnoringCase(h[k], t)}

(* Every term a record or a search can be given. *)
AllTerms == TypedTerms \cup Words

(* The step is a call of updateSearchHistory(term), made directly or by     *)
(* handleSearch(term).                                                      *)
RecordStep(term) ==
    \E throws \in BOOLEAN : Record(term, throws) \/ handleSearch(term, throws)

(* The step is a call of handleSearch or of updateSearchHistory: they are   *)
(* the steps that count a call.                                             *)
CallStep == calls' = calls + 1

(* m contains t as a contiguous part. *)
Contains(m, t) ==
    \E k \in 1..(Len(m) - Len(t) + 1) : SubSeq(m, k, k + Len(t) - 1) = t

-----------------------------------------------------------------------------
(* C1: in every reachable state the search history holds no two entries     *)
(* that are equal ignoring case, and at most MAX_HISTORY_ITEMS entries.     *)
C1_HistoryDistinctAndBounded ==
    /\ NoCaseDuplicates(searchHistory)
    /\ Len(searchHistory) <= MAX_HISTORY_ITEMS

(* A new term has been recorded into a full history. *)
C1_Witness ==
    /\ Len(searchHistory) = MAX_HISTORY_ITEMS
    /\ Head(searchHistory) = World
    /\ calls = 2
    /\ searchHistory[2] = hello

(* C2: after record(T) with T not blank the first entry is the trimmed T in *)
(* the casing given; when the history held an entry equal to T ignoring     *)
(* case, the length does not change, that entry is gone and the other       *)
(* entries keep their order.  Recording hello, World, HELLO from the empty  *)
(* history gives [HELLO, World].                                            *)
C2_MoveToFront ==
    [][ /\ updatedHistory(updatedHistory(updatedHistory(<<>>, hello), World), HELLO)
             = <<HELLO, World>>
        /\ \A t \in AllTerms :
             (CallStep /\ ~IsBlank(t) /\ RecordStep(t)) =>
                 /\ searchHistory' # <<>>
                 /\ Head(searchHistory') = trim(t)
                 /\ \A k \in Positions(searchHistory, trim(t)) :
                        /\ Len(searchHistory') = Len(searchHistory)
                        /\ Positions(searchHistory', trim(t)) = {1}
                        /\ Tail(searchHistory') = RemoveAt(searchHistory, k) ]_vars

(* HELLO has been recorded over [World, hello]. *)
C2_Witness ==
    /\ searchHistory = <<HELLO, World>>
    /\ calls = 1

(* C3: a record of a new term into a history of MAX_HISTORY_ITEMS entries   *)
(* leaves MAX_HISTORY_ITEMS entries, the term first, then the former        *)
(* entries but the last, in their order; and a record removes no entry but  *)
(* the last of a full history and the entry equal to the term ignoring case.*)
C3_OldestEvicted ==
    [][ \A t \in AllTerms :
          (CallStep /\ ~IsBlank(t) /\ RecordStep(t)) =>
              /\ (Len(searchHistory) = MAX_HISTORY_ITEMS
                    /\ Positions(searchHistory, trim(t)) = {}) =>
                     /\ Len(searchHistory') = MAX_HISTORY_ITEMS
                     /\ Head(searchHistory') = trim(t)
                     /\ Tail(searchHistory')
                          = SubSeq(searchHistory, 1, MAX_HISTORY_ITEMS - 1)
              /\ \A k \in 1..Len(searchHistory) :
                     (\A j \in 1..Len(searchHistory') :
                          searchHistory'[j] # searchHistory[k]) =>
                         \/ k \in Positions(searchHistory, trim(t))
                         \/ (k = MAX_HISTORY_ITEMS /\ k = Len(searchHistory)) ]_vars

(* hello has been recorded into the full history: j, the last, is gone. *)
C3_Witness ==
    /\ searchHistory = <<hello>> \o SubSeq(FullHistory, 1, MAX_HISTORY_ITEMS - 1)
    /\ calls = 1

(* C7: a blank term changes nothing in the history: record(term) leaves the *)
(* history and the stored entry as they are, and handleSearch(term) sets    *)
(* the please-enter error, sends no request, leaves isLoading as it is and  *)
(* leaves the history and the stored entry as they are.                     *)
C7_BlankTermNoEffect ==
    [][ \A t \in AllTerms :
          (CallStep /\ IsBlank(t)) =>
              /\ (\E throws \in BOOLEAN : Record(t, throws)) =>
                     UNCHANGED <<searchHistory, localStorage>>
              /\ (\E throws \in BOOLEAN : handleSearch(t, throws)) =>
                     /\ error' = Some(PleaseEnterMessage)
                     /\ UNCHANGED <<inFlight, isLoading, searchHistory, localStorage>> ]_vars

(* A blank term has been submitted over a history that is not empty. *)
C7_Witness ==
    /\ latest.status = "invalid"
    /\ error = Some(PleaseEnterMessage)
    /\ searchHistory # <<>>
    /\ ~isLoading
    /\ inFlight = <<>>

-----------------------------------------------------------------------------
(* What one handleSearch call renders when it runs alone to its end. *)
RenderedFor(call) ==
    [spinner |-> FALSE,
     errorMessage |-> IF Truthy(settledError(call.term, call.outcome, Null))
                      THEN settledError(call.term, call.outcome, Null)
                      ELSE Null,
     results |-> IF Truthy(settledError(call.term, call.outcome, Null))
                    \/ IsNull(settledTranslations(call.outcome))
                 THEN Null
                 ELSE Some([heading |-> call.term,
                            entries |-> ValueOf(settledTranslations(call.outcome))])]

(* C4: when a search was submitted while an earlier request was in flight  *)
(* and every request has settled, what is rendered is the outcome of the    *)
(* later submission, whatever the order in which the requests settled.      *)
C4_LatestOutcomeRendered ==
    (latest.status = "settled" /\ latest.overlapped /\ inFlight = <<>>)
        => Rendered = RenderedFor(latest)

ThrownValues ==
    {o.thrown : o \in {x \in UNION {ProviderOutcomes(w) : w \in Words} :
                          x.kind = "rejected"}}

(* C8: when the request rejects, loading is off, no results are stored, and *)
(* the error is the thrown message, or the fallback text when the thrown    *)
(* value carries no message; a message that is not empty is rendered.       *)
C8_RejectionShowsMessage ==
    [][ \A i \in 1..MaxCalls, err \in ThrownValues :
          Settle(i, Rejected(err)) =>
              /\ isLoading' = FALSE
              /\ translations' = Null
              /\ error' = Some(IF err.message # <<>> THEN err.message
                                                    ELSE UnknownErrorMessage)
              /\ Truthy(error') ]_vars

(* C9, as claimed: when the request for T resolves to no entries, loading   *)
(* is off, no results are stored, the error names T, and T is the first     *)
(* entry of the history.                                                    *)
C9_EmptyResultAndHistoryHead ==
    [][ \A i \in 1..MaxCalls :
          (i <= Len(inFlight) /\ Settle(i, Fulfilled(<<>>))) =>
              /\ isLoading' = FALSE
              /\ translations' = Null
              /\ Truthy(error') /\ Contains(ValueOf(error'), inFlight[i])
              /\ searchHistory' # <<>>
              /\ Head(searchHistory') = inFlight[i] ]_vars

(* C9, amended: when the request for T resolves to no entries, loading is   *)
(* off, no results are stored, the error names T, and the history and the   *)
(* stored entry are left as they are; T was made the first entry of the     *)
(* history when it was submitted.                                           *)
C9_EmptyResult ==
    [][ /\ \A i \in 1..MaxCalls :
             (i <= Len(inFlight) /\ Settle(i, Fulfilled(<<>>))) =>
                 /\ isLoading' = FALSE
                 /\ translations' = Null
                 /\ Truthy(error') /\ Contains(ValueOf(error'), inFlight[i])
                 /\ Rendered'.errorMessage = error'
                 /\ Rendered'.results = Null
                 /\ UNCHANGED <<searchHistory, localStorage>>
        /\ \A t \in AllTerms :
             (CallStep /\ ~IsBlank(t) /\ \E throws \in BOOLEAN : handleSearch(t, throws)) =>
                 /\ Head(searchHistory') = trim(t)
                 /\ inFlight' = Append(inFlight, trim(t)) ]_vars

(* The request for hello resolved to no entries. *)
C9_Witness ==
    /\ latest.status = "settled"
    /\ latest.term = hello
    /\ latest.outcome = Fulfilled(<<>>)
    /\ error = Some(notFoundMessage(hello))
    /\ Head(searchHistory) = hello
    /\ ~isLoading

(* C10: at most one of isLoading, error, translations is set, and isLoading *)
(* is set whenever a request is in flight.                                  *)
C10_OneOrchestrationState ==
    /\ Cardinality({x \in {"loading", "error", "translations"} :
                       \/ (x = "loading" /\ isLoading)
                       \/ (x = "error" /\ ~IsNull(error))
                       \/ (x = "translations" /\ ~IsNull(translations))}) <= 1
    /\ inFlight # <<>> => isLoading

====
